---- MODULE Spec2Model ----
(* Response finalisation of gotham: src/gotham/src/http/response/mod.rs.    *)
(* create_response, extend_response and set_headers acting on a hyper       *)
(* Response owned by one request handler.                                   *)
EXTENDS Integers, Sequences, FiniteSets, TLC

(* ---------------------------------------------------------------------- *)
(* Bounds and value sets                                                  *)
(* ---------------------------------------------------------------------- *)

\* longest body (Vec<u8>) a handler supplies, and largest explicit length
MaxBodyLen == 2

\* byte values bodies are made of
Bytes == {104, 105}

\* usize widths of the targets the crate may be built for
Widths == {16, 32, 64, 128}

Methods == {"Get", "Head", "Post"}
RequestIds == {"abc-123", "x"}
Statuses == {"Ok", "Accepted"}
Mimes == {"text/plain", "application/json"}

\* Option<T>: None is the empty sequence, Some(x) the one-element sequence
None == <<>>
Some(x) == <<x>>

RECURSIVE SeqsUpTo(_)
SeqsUpTo(n) ==
  IF n = 0 THEN {<<>>}
  ELSE LET shorter == SeqsUpTo(n - 1)
       IN shorter \cup {Append(s, b) : s \in {t \in shorter : Len(t) = n - 1}, b \in Bytes}

ByteVecs == SeqsUpTo(MaxBodyLen)

\* type Body = (Vec<u8>, Mime)
Body == [bytes : ByteVecs, mime : Mimes]
OptBody == {None} \cup {Some(b) : b \in Body}
OptMime == {None} \cup {Some(m) : m \in Mimes}
OptLength == {None} \cup {Some(n) : n \in 0..MaxBodyLen}

(* ---------------------------------------------------------------------- *)
(* Fixed-width unsigned integers, as little-endian digits of 16 bits      *)
(* ---------------------------------------------------------------------- *)

\* number of 16-bit digits of a k-bit unsigned type
Digits(k) == k \div 16

\* the k-bit unsigned integer of value n mod 2^k, for n below 2^31
ToUnsigned(n, k) ==
  [i \in 1..Digits(k) |->
     CASE i = 1 -> n % 65536
       [] i = 2 -> (n \div 65536) % 65536
       [] OTHER -> 0]

\* value of an unsigned integer whose digits above the second are zero
FromUnsigned(u) == u[1] + 65536 * u[2]

\* T::max_value() of a k-bit unsigned type
MaxValue(k) == [i \in 1..Digits(k) |-> 65535]

\* `x as T` between unsigned types: truncate to k bits or zero-extend to k bits
AsWidth(u, k) == [i \in 1..Digits(k) |-> IF i <= Len(u) THEN u[i] ELSE 0]

\* a > b for two unsigned integers of the same width
UGt(a, b) ==
  \E i \in 1..Len(a) :
    /\ a[i] > b[i]
    /\ \A j \in (i + 1)..Len(a) : a[j] = b[j]

\* usize::max_value() > u64::max_value() as usize
OverflowGuardGe(w) ==
  ~ UGt(AsWidth(MaxValue(64), w), MaxValue(w))
OverflowGuard(w) ==
  UGt(MaxValue(w), AsWidth(MaxValue(64), w))

\* body.len() as u64, for a usize of w bits
LenAsU64(bytes, w) == FromUnsigned(AsWidth(ToUnsigned(Len(bytes), w), 64))

(* ---------------------------------------------------------------------- *)
(* hyper::Response and its header collection                              *)
(* ---------------------------------------------------------------------- *)

ContentLength == "Content-Length"
ContentType == "Content-Type"
XRequestId == "X-Request-Id"
XFrameOptions == "X-Frame-Options"
XXssProtection == "X-XSS-Protection"
XContentTypeOptions == "X-Content-Type-Options"
Server == "Server"

SecurityHeaders == {XRequestId, XFrameOptions, XXssProtection, XContentTypeOptions}
HeaderNames == {ContentLength, ContentType, Server} \cup SecurityHeaders

\* a header collection maps each name to the sequence of its values
EmptyHeaders == [h \in HeaderNames |-> <<>>]

\* headers.set(H(value)): the header holds exactly this value afterwards
HeadersAppend(headers, name, value) ==
  [headers EXCEPT ![name] = Append(@, value)]
HeadersSet(headers, name, value) ==
  [headers EXCEPT ![name] = <<value>>]

\* Response::new()
ResponseNewStale ==
  [status |-> "Ok", headers |-> [EmptyHeaders EXCEPT ![Server] = <<"hyper">>], body |-> None]
ResponseNew ==
  [status |-> "Ok", headers |-> EmptyHeaders, body |-> None]

\* headers a caller put on a response before handing it to this module
CallerHeaders ==
  [h \in HeaderNames |->
     CASE h = ContentLength -> <<7>>
       [] h = ContentType -> <<"text/html">>
       [] h = XRequestId -> <<"spoofed">>
       [] h = XFrameOptions -> <<"SAMEORIGIN">>
       [] h = XXssProtection -> <<"0">>
       [] h = XContentTypeOptions -> <<"sniff">>
       [] OTHER -> <<"gotham">>]

TypedHeaders == [EmptyHeaders EXCEPT ![ContentType] = <<"text/html">>]

\* responses a handler holds before calling into this module: Response::new(),
\* Response::new().with_status(..), ..with_body(..), and one with caller-set headers
CallerResponses ==
  { ResponseNew,
    [status |-> "Accepted", headers |-> TypedHeaders, body |-> None],
    [status |-> "Ok", headers |-> EmptyHeaders, body |-> Some(<<104, 105>>)],
    [status |-> "Accepted", headers |-> CallerHeaders, body |-> Some(<<105>>)] }

(* ---------------------------------------------------------------------- *)
(* The three operations                                                   *)
(* ---------------------------------------------------------------------- *)

\* request_id(state)
request_id(state) == state.request_id

\* set_headers(state, res, mime, length)
set_headers_default_mime(state, res, mime, length) ==
  LET h1 == HeadersSet(res.headers, ContentLength, IF length # None THEN length[1] ELSE 0)
      h2 == HeadersSet(h1, ContentType, IF mime # None THEN mime[1] ELSE "application/octet-stream")
      h3 == HeadersSet(h2, XRequestId, request_id(state))
      h4 == HeadersSet(h3, XFrameOptions, "DENY")
      h5 == HeadersSet(h4, XXssProtection, "1; mode=block")
      h6 == HeadersSet(h5, XContentTypeOptions, "nosniff")
  IN [res EXCEPT !.headers = h6]
set_headers_keep_length(state, res, mime, length) ==
  LET h1 == IF length # None THEN HeadersSet(res.headers, ContentLength, length[1]) ELSE res.headers
      h2 == IF mime # None THEN HeadersSet(h1, ContentType, mime[1]) ELSE h1
      h3 == HeadersSet(h2, XRequestId, request_id(state))
      h4 == HeadersSet(h3, XFrameOptions, "DENY")
      h5 == HeadersSet(h4, XXssProtection, "1; mode=block")
      h6 == HeadersSet(h5, XContentTypeOptions, "nosniff")
  IN [res EXCEPT !.headers = h6]
set_headers_reset(state, res, mime, length) ==
  LET h1 == HeadersSet(EmptyHeaders, ContentLength, IF length # None THEN length[1] ELSE 0)
      h2 == IF mime # None THEN HeadersSet(h1, ContentType, mime[1]) ELSE h1
      h3 == HeadersSet(h2, XRequestId, request_id(state))
      h4 == HeadersSet(h3, XFrameOptions, "DENY")
      h5 == HeadersSet(h4, XXssProtection, "1; mode=block")
      h6 == HeadersSet(h5, XContentTypeOptions, "nosniff")
  IN [ResponseNew EXCEPT !.headers = h6]
set_headers(state, res, mime, length) ==
  LET h1 == HeadersSet(res.headers, ContentLength, IF length # None THEN length[1] ELSE 0)
      h2 == IF mime # None THEN HeadersSet(h1, ContentType, mime[1]) ELSE h1
      h3 == HeadersSet(h2, XRequestId, request_id(state))
      h4 == HeadersSet(h3, XFrameOptions, "DENY")
      h5 == HeadersSet(h4, XXssProtection, "1; mode=block")
      h6 == HeadersSet(h5, XContentTypeOptions, "nosniff")
  IN [res EXCEPT !.headers = h6]

\* res.set_status(status)
set_status_keep(res, status) == res
set_status(res, status) == [res EXCEPT !.status = status]

\* res.set_body(body)
set_body(res, bytes) == [res EXCEPT !.body = Some(bytes)]

\* match *Method::borrow_from(state) { Method::Head => (), _ => res.set_body(body) }
attach_body_never(state, res, bytes) == res
attach_body(state, res, bytes) ==
  IF state.method = "Head" THEN res ELSE set_body(res, bytes)

\* the match on body of extend_response, reached when the guard has passed
extend_body_head_zero(state, res, status, body, w) ==
  IF body # None
  THEN LET len == IF state.method = "Head" THEN 0 ELSE LenAsU64(body[1].bytes, w)
           r1 == set_headers(state, res, Some(body[1].mime), Some(len))
           r2 == set_status(r1, status)
       IN attach_body(state, r2, body[1].bytes)
  ELSE set_status(set_headers(state, res, None, None), status)
extend_body_clearing(state, res, status, body, w) ==
  IF body # None
  THEN LET r1 == set_headers(state, res, Some(body[1].mime), Some(LenAsU64(body[1].bytes, w)))
           r2 == set_status(r1, status)
       IN attach_body(state, [r2 EXCEPT !.body = None], body[1].bytes)
  ELSE [set_status(set_headers(state, res, None, None), status) EXCEPT !.body = None]
extend_body(state, res, status, body, w) ==
  IF body # None
  THEN LET r1 == set_headers(state, res, Some(body[1].mime), Some(LenAsU64(body[1].bytes, w)))
           r2 == set_status(r1, status)
       IN attach_body(state, r2, body[1].bytes)
  ELSE set_status(set_headers(state, res, None, None), status)

\* extend_response(state, res, status, body): the outcome and the response
extend_response(state, res, status, body, w) ==
  IF OverflowGuard(w)
  THEN [panic |-> TRUE, res |-> res]
  ELSE [panic |-> FALSE, res |-> extend_body(state, res, status, body, w)]

\* create_response(state, status, body)
create_response(state, status, body, w) ==
  extend_response(state, ResponseNew, status, body, w)

(* ---------------------------------------------------------------------- *)
(* State machine: one handler working on one response                     *)
(* ---------------------------------------------------------------------- *)

VARIABLES
  usize_bits,  \* width of usize on the target
  state,       \* the request's State: its Method and its request id
  res,         \* the handler's Response
  panicked,    \* the process has panicked in the overflow guard
  last         \* the most recent call and its arguments

vars == <<usize_bits, state, res, panicked, last>>

NoCall == [op |-> "none", status |-> "Ok", body |-> None, mime |-> None, length |-> None]

Init ==
  /\ usize_bits \in Widths
  /\ state \in [method : Methods, request_id : RequestIds]
  /\ res \in CallerResponses
  /\ panicked = FALSE
  /\ last = NoCall

SetHeadersCall ==
  \E mime \in OptMime, length \in OptLength :
    /\ ~ panicked
    /\ res' = set_headers(state, res, mime, length)
    /\ last' = [op |-> "set_headers", status |-> "Ok", body |-> None,
                mime |-> mime, length |-> length]
    /\ UNCHANGED <<usize_bits, state, panicked>>

ExtendResponseCall ==
  \E status \in Statuses, body \in OptBody :
    LET out == extend_response(state, res, status, body, usize_bits)
    IN /\ ~ panicked
       /\ res' = out.res
       /\ panicked' = out.panic
       /\ last' = [op |-> "extend_response", status |-> status, body |-> body,
                   mime |-> None, length |-> None]
       /\ UNCHANGED <<usize_bits, state>>

CreateResponseCall ==
  \E status \in Statuses, body \in OptBody :
    LET out == create_response(state, status, body, usize_bits)
    IN /\ ~ panicked
       /\ res' = IF out.panic THEN res ELSE out.res
       /\ panicked' = out.panic
       /\ last' = [op |-> "create_response", status |-> status, body |-> body,
                   mime |-> None, length |-> None]
       /\ UNCHANGED <<usize_bits, state>>

Next == SetHeadersCall \/ ExtendResponseCall \/ CreateResponseCall

Spec == Init /\ [][Next]_vars

TypeOK ==
  /\ usize_bits \in Widths
  /\ state \in [method : Methods, request_id : RequestIds]
  /\ res.status \in Statuses
  /\ panicked \in BOOLEAN
  /\ last.op \in {"none", "set_headers", "extend_response", "create_response"}

(* ---------------------------------------------------------------------- *)
(* Properties                                                             *)
(* ---------------------------------------------------------------------- *)

\* the most recent call has returned (it did not panic in the guard)
Returned(ops) == last.op \in ops /\ ~ panicked
ReturnedNext(ops) == last'.op \in ops /\ ~ panicked'

Builds == {"create_response"}
Extends == {"extend_response"}
BuildsAndExtends == {"create_response", "extend_response"}
AllCalls == {"set_headers", "extend_response", "create_response"}

\* the most recent call carried no body: no Body, or neither mime nor length
NoBodyGiven(c) ==
  \/ c.op \in BuildsAndExtends /\ c.body = None
  \/ c.op = "set_headers" /\ c.mime = None /\ c.length = None

\* the length and the content type the most recent call gave, if any
GivenLength(c) ==
  IF c.op = "set_headers"
  THEN (IF c.length # None THEN c.length[1] ELSE 0)
  ELSE (IF c.body # None THEN Len(c.body[1].bytes) ELSE 0)
GivenMime(c) ==
  IF c.op = "set_headers"
  THEN c.mime
  ELSE (IF c.body # None THEN Some(c.body[1].mime) ELSE None)

PresentHeaders(r) == {h \in HeaderNames : Len(r.headers[h]) > 0}

\* C1: a build under HEAD with a body of length L and type T returns
\* Content-Length = L and Content-Type = T, the headers the same call gives
\* under GET, and attaches no body.
C1_HeadKeepsLengthDropsBody ==
  (Returned(Builds) /\ state.method = "Head" /\ last.body # None) =>
    /\ res.headers[ContentLength] = <<Len(last.body[1].bytes)>>
    /\ res.headers[ContentType] = <<last.body[1].mime>>
    /\ res.headers =
         create_response([state EXCEPT !.method = "Get"], last.status, last.body,
                         usize_bits).res.headers
    /\ res.body = None

C1_Witness ==
  /\ Returned(Builds)
  /\ state.method = "Head"
  /\ last.body = Some([bytes |-> <<104, 105>>, mime |-> "text/plain"])
  /\ res.headers[ContentLength] = <<2>>
  /\ res.body = None

\* C2: a build or extend with body B of type T under a method other than
\* HEAD leaves Content-Length = length(B), Content-Type = T and body = B,
\* whatever the draft held before.
C2_BodyAttached ==
  (Returned(BuildsAndExtends) /\ state.method # "Head" /\ last.body # None) =>
    /\ res.headers[ContentLength] = <<Len(last.body[1].bytes)>>
    /\ res.headers[ContentType] = <<last.body[1].mime>>
    /\ res.body = Some(last.body[1].bytes)

C2_Witness ==
  /\ Returned(Extends)
  /\ state.method = "Post"
  /\ last.body = Some([bytes |-> <<105, 104>>, mime |-> "application/json"])
  /\ res.headers[Server] = <<"gotham">>
  /\ res.body = Some(<<105, 104>>)

\* C3 as stated: after every call with no body, on any draft, Content-Length
\* is 0 and Content-Type is absent.
C3_Original ==
  (Returned(AllCalls) /\ NoBodyGiven(last)) =>
    /\ res.headers[ContentLength] = <<0>>
    /\ res.headers[ContentType] = <<>>

\* C3 amended: after every call with no body Content-Length is 0 and the
\* Content-Type header is as it was before the call: absent after a build and
\* on a draft that had none, unchanged on a draft that already carried one.
C3_NoBodyLeavesContentType ==
  [][(ReturnedNext(AllCalls) /\ NoBodyGiven(last')) =>
       /\ res'.headers[ContentLength] = <<0>>
       /\ res'.headers[ContentType] =
            IF last'.op = "create_response" THEN <<>> ELSE res.headers[ContentType]]_vars

C3_Witness ==
  /\ Returned(Extends)
  /\ NoBodyGiven(last)
  /\ res.headers[ContentLength] = <<0>>
  /\ res.headers[ContentType] = <<"text/html">>

\* C4: after every set_headers, extend or build call each of the four
\* security headers holds exactly its mandated value, X-Request-Id the
\* request id of the state; values set by the caller before are replaced.
C4_SecurityHeaders ==
  Returned(AllCalls) =>
    /\ res.headers[XFrameOptions] = <<"DENY">>
    /\ res.headers[XXssProtection] = <<"1; mode=block">>
    /\ res.headers[XContentTypeOptions] = <<"nosniff">>
    /\ res.headers[XRequestId] = <<state.request_id>>

C4_Witness ==
  /\ Returned({"set_headers"})
  /\ res.headers[Server] = <<"gotham">>
  /\ res.headers[XRequestId] = <<"abc-123">>
  /\ res.headers[XFrameOptions] = <<"DENY">>

\* C5: after every build or extend call that returns, the status of the
\* draft is the status argument, with or without a body, under every method.
C5_StatusReflected ==
  Returned(BuildsAndExtends) => res.status = last.status

C5_Witness ==
  /\ Returned(Extends)
  /\ state.method = "Head"
  /\ last.body = None
  /\ last.status = "Ok"
  /\ res.status = "Ok"
  /\ res.headers[Server] = <<"gotham">>

\* C6: a build or extend call panics in the overflow guard exactly when usize
\* is wider than 64 bits, whatever its arguments, and a call that panics
\* leaves the draft as it was.
C6_OverflowGuard ==
  [][last'.op \in BuildsAndExtends =>
       /\ panicked' <=> usize_bits > 64
       /\ panicked' => res' = res]_vars

C6_Witness ==
  /\ panicked
  /\ usize_bits = 128
  /\ last.op = "extend_response"
  /\ res.headers[XRequestId] = <<"spoofed">>

\* C7 as stated: after every extend call that returns, the body is absent
\* when none was supplied or the method is HEAD, and the supplied bytes
\* otherwise; a body held before never survives the first two cases.
C7_Original ==
  Returned(Extends) =>
    res.body = IF last.body = None \/ state.method = "Head"
               THEN None
               ELSE Some(last.body[1].bytes)

\* C7 amended: after every extend call that returns, the body is the supplied
\* bytes when a body is supplied and the method is not HEAD; otherwise the
\* call leaves the body as it was, absent only if the draft held none.
C7_BodyAttachedOrLeft ==
  [][ReturnedNext(Extends) =>
       res'.body = IF last'.body = None \/ state.method = "Head"
                   THEN res.body
                   ELSE Some(last'.body[1].bytes)]_vars

C7_Witness ==
  /\ Returned(Extends)
  /\ state.method = "Head"
  /\ last.body = Some([bytes |-> <<104>>, mime |-> "text/plain"])
  /\ res.headers[ContentLength] = <<1>>
  /\ res.body = Some(<<104, 105>>)

\* C8: build returns what extend leaves in a fresh empty draft: the headers
\* present are Content-Length, the four security headers and, only when a
\* body was supplied, Content-Type, each with one value, and no other.
C8_BuildIsExtendOfFresh ==
  Returned(Builds) =>
    /\ res = extend_response(state,
                             [status |-> "Ok", headers |-> EmptyHeaders, body |-> None],
                             last.status, last.body, usize_bits).res
    /\ PresentHeaders(res) =
         {ContentLength} \cup SecurityHeaders
           \cup (IF last.body # None THEN {ContentType} ELSE {})
    /\ \A h \in PresentHeaders(res) : Len(res.headers[h]) = 1

C8_Witness ==
  /\ Returned(Builds)
  /\ last.body = Some([bytes |-> <<>>, mime |-> "application/json"])
  /\ PresentHeaders(res) = {ContentLength, ContentType} \cup SecurityHeaders
  /\ res.body = Some(<<>>)

\* C9 as stated: after set_headers or extend there is exactly one
\* Content-Length value, the length the most recent call gave (0 when none),
\* and Content-Type is present iff the most recent call supplied one.
C9_Original ==
  Returned({"set_headers", "extend_response"}) =>
    /\ res.headers[ContentLength] = <<GivenLength(last)>>
    /\ Len(res.headers[ContentType]) > 0 <=> GivenMime(last) # None

\* C9 amended: after set_headers or extend there is exactly one Content-Length
\* value, the length the most recent call gave (0 when none); Content-Type is
\* the content type of the most recent call when it supplied one, and is
\* otherwise left as it was before that call.
C9_LengthOfLastCall ==
  [][ReturnedNext({"set_headers", "extend_response"}) =>
       /\ res'.headers[ContentLength] = <<GivenLength(last')>>
       /\ res'.headers[ContentType] =
            IF GivenMime(last') # None THEN GivenMime(last') ELSE res.headers[ContentType]]_vars

C9_Witness ==
  /\ Returned({"set_headers"})
  /\ last.mime = None
  /\ last.length = Some(2)
  /\ res.headers[ContentLength] = <<2>>
  /\ res.headers[ContentType] = <<"application/json">>

\* C10: set_headers changes only headers: status and body stay as they were,
\* also when the given length differs from the length of the body, a header
\* outside the six it sets keeps its values, and the State is unchanged.
C10_SetHeadersFrame ==
  [][last'.op = "set_headers" =>
       /\ res'.status = res.status
       /\ res'.body = res.body
       /\ res'.headers[Server] = res.headers[Server]
       /\ state' = state]_vars

C10_Witness ==
  /\ Returned({"set_headers"})
  /\ last.length = Some(0)
  /\ res.status = "Accepted"
  /\ res.body = Some(<<105>>)
  /\ res.headers[Server] = <<"gotham">>

====
